---- MODULE Spec2Model ----
(***************************************************************************)
(* Coastal flood modelling: the connected flood delineation of             *)
(* run_simulation_on_vrt, the tile planner create_tiles and the tile       *)
(* orchestrator process_tiles (src/Simul_corrected.py).                    *)
(***************************************************************************)
EXTENDS Integers, Sequences, FiniteSets, TLC

(***************************************************************************)
(* Python floats: IEEE-754 binary64 with round-to-nearest-even.  A finite  *)
(* float is a record [s, e, h, l] whose value is                           *)
(*      (-1)^s * (h * 2^27 + l) * 2^e                                      *)
(* with the mantissa h * 2^27 + l normalised to 53 bits; zero is           *)
(* [s |-> 0, e |-> 0, h |-> 0, l |-> 0].  Wide intermediate mantissas are  *)
(* pairs <<h, l>> with l < 2^27.                                           *)
(***************************************************************************)
Limb == 2^27

FZero == [s |-> 0, e |-> 0, h |-> 0, l |-> 0]

IsZero(x) == x.h = 0 /\ x.l = 0

RECURSIVE BitLen(_)
BitLen(n) == IF n = 0 THEN 0 ELSE 1 + BitLen(n \div 2)

WBitLen(w) == IF w[1] > 0 THEN 27 + BitLen(w[1]) ELSE BitLen(w[2])

ShL1(w) == <<2 * w[1] + (w[2] \div (2^26)), (2 * w[2]) % Limb>>

\* shift left by k bits (the result fits a pair)
ShL(w, k) ==
    IF k = 0 THEN w
    ELSE IF k < 27
    THEN <<w[1] * (2^k) + (w[2] \div (2^(27 - k))), (w[2] % (2^(27 - k))) * (2^k)>>
    ELSE <<w[2] * (2^(k - 27)), 0>>

\* shift right by k bits; the third component tells whether a 1 was shifted out
ShRS(w, k) ==
    IF k = 0 THEN <<w[1], w[2], FALSE>>
    ELSE IF k < 27
    THEN <<w[1] \div (2^k), (w[2] \div (2^k)) + (w[1] % (2^k)) * (2^(27 - k)),
           w[2] % (2^k) # 0>>
    ELSE IF k < 58
    THEN <<0, w[1] \div (2^(k - 27)), w[1] % (2^(k - 27)) # 0 \/ w[2] # 0>>
    ELSE <<0, 0, w[1] # 0 \/ w[2] # 0>>

WInc(w) == IF w[2] + 1 = Limb THEN <<w[1] + 1, 0>> ELSE <<w[1], w[2] + 1>>

WAdd(a, b) ==
    LET lo == a[2] + b[2]
    IN  <<a[1] + b[1] + (lo \div Limb), lo % Limb>>

\* a - b for a >= b
WSub(a, b) ==
    IF a[2] >= b[2]
    THEN <<a[1] - b[1], a[2] - b[2]>>
    ELSE <<a[1] - b[1] - 1, a[2] + Limb - b[2]>>

WGe(a, b) == a[1] > b[1] \/ (a[1] = b[1] /\ a[2] >= b[2])

\* round the exact value (-1)^s * (w + sticky) * 2^e to the nearest float,
\* ties to even
RoundW(s, e, w, st) ==
    LET n == WBitLen(w)
    IN  IF n = 0 THEN FZero
        ELSE IF n <= 53
        THEN LET v == ShL(w, 53 - n)
             IN  [s |-> s, e |-> e - (53 - n), h |-> v[1], l |-> v[2]]
        ELSE LET d    == n - 53
                 low  == w[2] % (2^d)
                 half == 2^(d - 1)
                 r    == ShRS(w, d)
                 up   == low > half
                         \/ (low = half /\ (st \/ r[2] % 2 = 1))
                 m    == IF up THEN WInc(<<r[1], r[2]>>) ELSE <<r[1], r[2]>>
             IN  IF m[1] = 2^26
                 THEN [s |-> s, e |-> e + d + 1, h |-> 2^25, l |-> 0]
                 ELSE [s |-> s, e |-> e + d, h |-> m[1], l |-> m[2]]

\* float(n) for an int n, |n| < 2^27
FromInt(n) ==
    RoundW(IF n < 0 THEN 1 ELSE 0, 0, <<0, IF n < 0 THEN -n ELSE n>>, FALSE)

FNeg(x) == IF IsZero(x) THEN x ELSE [x EXCEPT !.s = 1 - x.s]

\* a + b
FAdd(a, b) ==
    IF IsZero(a) THEN b
    ELSE IF IsZero(b) THEN a
    ELSE LET big   == IF a.e >= b.e THEN a ELSE b
             small == IF a.e >= b.e THEN b ELSE a
             wb    == ShL(<<big.h, big.l>>, 3)
             sh    == ShRS(ShL(<<small.h, small.l>>, 3), big.e - small.e)
             ws    == IF sh[3] /\ sh[2] % 2 = 0
                      THEN <<sh[1], sh[2] + 1>> ELSE <<sh[1], sh[2]>>
         IN  IF big.s = small.s
             THEN RoundW(big.s, big.e - 3, WAdd(wb, ws), FALSE)
             ELSE IF wb = ws THEN FZero
             ELSE IF WGe(wb, ws)
             THEN RoundW(big.s, big.e - 3, WSub(wb, ws), FALSE)
             ELSE RoundW(small.s, big.e - 3, WSub(ws, wb), FALSE)

\* a - b
FSub(a, b) == FAdd(a, FNeg(b))

\* i * x for an int i in 0..15
MulInt(i, x) ==
    IF i = 0 \/ IsZero(x) THEN FZero
    ELSE LET p == x.l * i
         IN  RoundW(x.s, x.e, <<x.h * i + (p \div Limb), p % Limb>>, FALSE)

\* k steps of binary long division: rq = <<remainder, quotient>>, divisor d
RECURSIVE DivLoop(_, _, _)
DivLoop(rq, d, k) ==
    IF k = 0 THEN rq
    ELSE LET r2 == ShL1(rq[1])
             q2 == ShL1(rq[2])
         IN  IF WGe(r2, d)
             THEN DivLoop(<<WSub(r2, d), WInc(q2)>>, d, k - 1)
             ELSE DivLoop(<<r2, q2>>, d, k - 1)

\* a / b, b nonzero
FDiv(a, b) ==
    IF IsZero(a) THEN FZero
    ELSE LET ma == <<a.h, a.l>>
             mb == <<b.h, b.l>>
             rq == IF WGe(ma, mb)
                   THEN DivLoop(<<WSub(ma, mb), <<0, 1>>>>, mb, 55)
                   ELSE DivLoop(<<ma, <<0, 0>>>>, mb, 55)
         IN  RoundW(IF a.s = b.s THEN 0 ELSE 1, a.e - b.e - 55, rq[2],
                    rq[1] # <<0, 0>>)

MagLt(a, b) ==
    IF IsZero(b) THEN FALSE
    ELSE IF IsZero(a) THEN TRUE
    ELSE a.e < b.e
         \/ (a.e = b.e /\ (a.h < b.h \/ (a.h = b.h /\ a.l < b.l)))

\* a < b
FLt(a, b) ==
    IF a.s # b.s THEN a.s = 1
    ELSE IF a.s = 0 THEN MagLt(a, b) ELSE MagLt(b, a)

\* a <= b
FLe(a, b) == ~FLt(b, a)

\* Python's min(a, b) and max(a, b)
FMin(a, b) == IF FLt(b, a) THEN b ELSE a

FMax(a, b) == IF FLt(a, b) THEN b ELSE a

\* int(np.ceil(x)) for |x| < 2^27
FCeil(x) ==
    IF IsZero(x) THEN 0
    ELSE LET r == ShRS(<<x.h, x.l>>, -x.e)
         IN  IF x.s = 0 THEN r[2] + (IF r[3] THEN 1 ELSE 0) ELSE -r[2]

\* the float written as the decimal literal n / 1000
Milli(n) == FDiv(FromInt(n), FromInt(1000))

(***************************************************************************)
(* State.  Four operations are modelled, each with its own specification:  *)
(*   the delineation of run_simulation_on_vrt   (fpc, shape, nodata, ...)  *)
(*   the tile planner create_tiles              (tpc, args, tiles)         *)
(*   the tile orchestrator process_tiles        (bpc, tile_list, idx, ...) *)
(*   the tiled command run, __main__            (mpc, exit_status, ...)    *)
(* and the threshold arithmetic of run_simulation_on_vrt (spc, scenario).  *)
(***************************************************************************)
VARIABLES
    fpc,              \* position in run_simulation_on_vrt
    shape,            \* <<rows, columns>> of dem_array
    nodata,           \* src.nodata, None when the raster declares none
    dem_array,        \* the elevation grid, a function of <<row, column>>
    raw,              \* the grid as read, before sanitization
    flood_threshold,
    seed,
    flooded,          \* the working surface of the reconstruction
    flood_mask,
    tpc,              \* position in create_tiles
    args,             \* <<min_lon, min_lat, max_lon, max_lat, tile_size_deg,
                      \*   overlap>> as written, in thousandths of a degree
    bounds,           \* the floats create_tiles receives
    tile_size_deg,
    overlap,
    n_tiles_x,
    n_tiles_y,
    tiles,            \* the list create_tiles returns
    bpc,              \* position in process_tiles
    tile_list,        \* the tiles handed to process_tiles
    save_individual_maps,
    idx,
    cur,              \* metadata of the tile being processed
    results,
    total_flooded_pixels,
    total_flooded_area_km2,
    raised,           \* history: the indices of the tiles whose processing
                      \* raised
    mpc,              \* position in the tiled command run (__main__)
    vrt_is_file,      \* os.path.isfile(vrt_file)
    exit_status,      \* the exit status of the process, None while it runs
    spc,              \* position in the threshold arithmetic
    scenario,         \* <<tide_zh, surge, slr, datum_offset>> as written, in
                      \* hundredths of a metre
    total_water_level

floodVars == <<fpc, shape, nodata, dem_array, raw, flood_threshold, seed,
               flooded, flood_mask>>

tileVars == <<tpc, args, bounds, tile_size_deg, overlap, n_tiles_x,
              n_tiles_y, tiles>>

batchVars == <<bpc, tile_list, save_individual_maps, idx, cur, results,
               total_flooded_pixels, total_flooded_area_km2, raised>>

mainVars == <<mpc, vrt_is_file, exit_status>>

scenarioVars == <<spc, scenario, total_water_level>>

vars == <<floodVars, tileVars, batchVars, mainVars, scenarioVars>>

\* Python's None, distinct from every number of the model
None == -(2^22)

FloodIdle ==
    /\ fpc = "idle" /\ shape = <<0, 0>> /\ nodata = None
    /\ dem_array = <<>> /\ raw = <<>> /\ flood_threshold = 0
    /\ seed = <<>> /\ flooded = <<>> /\ flood_mask = <<>>

TilesIdle ==
    /\ tpc = "idle" /\ args = <<>> /\ bounds = <<>>
    /\ tile_size_deg = FZero /\ overlap = FZero
    /\ n_tiles_x = 0 /\ n_tiles_y = 0 /\ tiles = <<>>

\* the metadata slot of a tile without a result
NoMetadata == [flooded_pixels |-> None, flooded_area_km2 |-> None]

BatchIdle ==
    /\ bpc = "idle" /\ tile_list = <<>> /\ save_individual_maps = FALSE
    /\ idx = 0 /\ cur = NoMetadata /\ results = <<>>
    /\ total_flooded_pixels = 0 /\ total_flooded_area_km2 = 0
    /\ raised = {}

MainIdle == mpc = "idle" /\ vrt_is_file = FALSE /\ exit_status = None

ScenarioIdle == spc = "idle" /\ scenario = <<>> /\ total_water_level = FZero

(***************************************************************************)
(* The delineation of run_simulation_on_vrt.  Elevations are integers; the *)
(* non-finite floats are the three values below, NaN being larger than     *)
(* every other value in the sorted order the reconstruction works on.      *)
(***************************************************************************)
PosInf == 2^20

NegInf == -(2^20)

NaN == 2^21

IsFinite(x) == x \notin {PosInf, NegInf, NaN}

\* the comparisons a < b and a == b of floats
Lt(a, b) == a # NaN /\ b # NaN /\ a < b

Eq(a, b) == a # NaN /\ b # NaN /\ a = b

DefaultNodata == -9999

DryValue == 9999

SafetyFloor == -100

MaxCells == 12

MaxRawLen == 3

\* elevations of the larger grids, and the values of the raw one-row grids
Elevs == {1, 3}

RawVals == {-9999, -101, -100, 0, 2, NegInf, PosInf, NaN}

Sentinels == {None, 0, NaN}

Thresholds == {2, 3}

Cells(sh) == (1..sh[1]) \X (1..sh[2])

\* the safety floor applied with <= instead of <
SanitizeGridFloorIncluded(grid, declared) ==
    LET nodata_value == IF declared # None THEN declared ELSE DefaultNodata
        step1 == [c \in DOMAIN grid |->
                     IF Eq(grid[c], nodata_value) THEN DryValue ELSE grid[c]]
    IN  [c \in DOMAIN grid |->
            IF ~Lt(SafetyFloor, step1[c]) /\ step1[c] # NaN
            THEN DryValue ELSE step1[c]]

\* lines 82-89: the no-data rule, then the safety floor
SanitizeGrid(grid, declared) ==
    LET nodata_value == IF declared # None THEN declared ELSE DefaultNodata
        step1 == [c \in DOMAIN grid |->
                     IF Eq(grid[c], nodata_value) THEN DryValue ELSE grid[c]]
    IN  [c \in DOMAIN grid |->
            IF Lt(step1[c], SafetyFloor) THEN DryValue ELSE step1[c]]

\* np.max: NaN when the array holds one
ArrayMax(grid) ==
    IF \E c \in DOMAIN grid : grid[c] = NaN THEN NaN
    ELSE CHOOSE m \in {grid[c] : c \in DOMAIN grid} :
             \A c \in DOMAIN grid : grid[c] <= m

\* the slice [1:, 1:] instead of [1:-1, 1:-1]
InteriorToTheEnd(sh, c) == c[1] > 1 /\ c[2] > 1

\* the cells of the slice [1:-1, 1:-1]
Interior(sh, c) == c[1] > 1 /\ c[1] < sh[1] /\ c[2] > 1 /\ c[2] < sh[2]

\* the seed without line 94: nothing is raised to the maximum
MakeSeedUnraised(sh, dem, t) == dem

\* the seed that raises the interior cells at or above the threshold and
\* leaves every cell below the threshold at its own elevation
MakeSeedHighRaised(sh, dem, t) ==
    [c \in DOMAIN dem |->
        IF Interior(sh, c) /\ ~Lt(dem[c], t) THEN ArrayMax(dem) ELSE dem[c]]

\* lines 93-95
MakeSeed(sh, dem, t) ==
    LET top   == ArrayMax(dem)
        seed0 == [c \in DOMAIN dem |-> IF Interior(sh, c) THEN top ELSE dem[c]]
    IN  [c \in DOMAIN dem |-> IF Lt(dem[c], t) THEN seed0[c] ELSE dem[c]]

\* the cross-shaped neighbourhood
FootprintCross == {o \in {-1, 0, 1} \X {-1, 0, 1} : o[1] = 0 \/ o[2] = 0}

\* the neighbourhood of reconstruction(seed, mask, method='erosion'), called
\* without a footprint: the 3 x 3 square
Footprint == {-1, 0, 1} \X {-1, 0, 1}

SetMin(S) == CHOOSE x \in S : \A y \in S : x <= y

SetMax(S) == CHOOSE x \in S : \A y \in S : x >= y

\* a pass that takes the maximum of the neighbourhood instead of the minimum
Dilate(sh, dem, R) ==
    [c \in DOMAIN R |->
        LET w == SetMax({R[<<c[1] + o[1], c[2] + o[2]>>] :
                           o \in {o \in Footprint :
                                    <<c[1] + o[1], c[2] + o[2]>> \in Cells(sh)}})
        IN  IF w < dem[c] THEN dem[c] ELSE w]

\* the erosion pass without the lower bound of the mask
ErodeBelowMask(sh, dem, R) ==
    [c \in DOMAIN R |->
        SetMin({R[<<c[1] + o[1], c[2] + o[2]>>] :
                  o \in {o \in Footprint :
                           <<c[1] + o[1], c[2] + o[2]>> \in Cells(sh)}})]

\* one pass of geodesic erosion of R above the mask dem
Erode(sh, dem, R) ==
    [c \in DOMAIN R |->
        LET w == SetMin({R[<<c[1] + o[1], c[2] + o[2]>>] :
                           o \in {o \in Footprint :
                                    <<c[1] + o[1], c[2] + o[2]>> \in Cells(sh)}})
        IN  IF w < dem[c] THEN dem[c] ELSE w]

\* the mask of the cells less than two metres under water
MaskOfShallow(R, t) ==
    [c \in DOMAIN R |-> IF Lt(R[c], t) /\ ~Lt(R[c], t - 2) THEN 1 ELSE 0]

\* line 99: (flooded < flood_threshold).astype(np.uint8)
MaskOf(R, t) == [c \in DOMAIN R |-> IF Lt(R[c], t) THEN 1 ELSE 0]

FloodInit ==
    /\ fpc = "loaded"
    /\ \/ /\ shape \in {sh \in (1..MaxCells) \X (1..MaxCells) :
                            sh[1] * sh[2] <= MaxCells}
          /\ raw \in [Cells(shape) -> Elevs]
          /\ nodata = None
       \/ /\ shape \in {<<1, n>> : n \in 1..MaxRawLen}
          /\ raw \in [Cells(shape) -> RawVals]
          /\ nodata \in Sentinels
    /\ dem_array = raw
    /\ flood_threshold \in Thresholds
    /\ seed = <<>> /\ flooded = <<>> /\ flood_mask = <<>>
    /\ TilesIdle /\ BatchIdle /\ MainIdle /\ ScenarioIdle

\* lines 81-89
Sanitize ==
    /\ fpc = "loaded"
    /\ dem_array' = SanitizeGrid(dem_array, nodata)
    /\ fpc' = "sanitized"
    /\ UNCHANGED <<shape, nodata, raw, flood_threshold, seed, flooded,
                   flood_mask, tileVars, batchVars,
                   mainVars, scenarioVars>>

\* lines 93-95
Seed ==
    /\ fpc = "sanitized"
    /\ seed' = MakeSeed(shape, dem_array, flood_threshold)
    /\ fpc' = "seeded"
    /\ UNCHANGED <<shape, nodata, raw, dem_array, flood_threshold, flooded,
                   flood_mask, tileVars, batchVars,
                   mainVars, scenarioVars>>

\* line 98, entry: a seed below the mask is rejected, otherwise the working
\* surface starts as the seed
ReconBegin ==
    /\ fpc = "seeded"
    /\ flooded' = seed
    /\ fpc' = IF \E c \in DOMAIN seed : Lt(seed[c], dem_array[c])
              THEN "raised" ELSE "recon"
    /\ UNCHANGED <<shape, nodata, raw, dem_array, flood_threshold, seed,
                   flood_mask, tileVars, batchVars,
                   mainVars, scenarioVars>>

\* line 98: one pass, while a pass still changes a cell
ReconStep ==
    /\ fpc = "recon"
    /\ flooded' = Erode(shape, dem_array, flooded)
    /\ flooded' # flooded
    /\ UNCHANGED <<fpc, shape, nodata, raw, dem_array, flood_threshold, seed,
                   flood_mask, tileVars, batchVars,
                   mainVars, scenarioVars>>

\* the mask taken only from a surface that is still the seed
ExtractMaskOfSeedOnly ==
    /\ fpc = "recon"
    /\ flooded = seed
    /\ Erode(shape, dem_array, flooded) = flooded
    /\ flood_mask' = MaskOf(flooded, flood_threshold)
    /\ fpc' = "done"
    /\ UNCHANGED <<shape, nodata, raw, dem_array, flood_threshold, seed,
                   flooded, tileVars, batchVars,
                   mainVars, scenarioVars>>

\* lines 98-99: at the fixed point the mask is taken
ExtractMask ==
    /\ fpc = "recon"
    /\ Erode(shape, dem_array, flooded) = flooded
    /\ flood_mask' = MaskOf(flooded, flood_threshold)
    /\ fpc' = "done"
    /\ UNCHANGED <<shape, nodata, raw, dem_array, flood_threshold, seed,
                   flooded, tileVars, batchVars,
                   mainVars, scenarioVars>>

FloodNext == Sanitize \/ Seed \/ ReconBegin \/ ReconStep \/ ExtractMask

SpecFlood == FloodInit /\ [][FloodNext]_vars

\* run_simulation_on_vrt is sequential code: a step that can be taken is
\* taken.  The grids are those with an interior, where passes happen, and
\* the smallest ones without.
FloodLiveInit ==
    /\ fpc = "loaded"
    /\ shape \in {sh \in (1..MaxCells) \X (1..MaxCells) :
                     /\ sh[1] * sh[2] <= MaxCells
                     /\ (sh[1] >= 3 /\ sh[2] >= 3) \/ sh[1] * sh[2] <= 4}
    /\ raw \in [Cells(shape) -> Elevs]
    /\ nodata = None
    /\ dem_array = raw
    /\ flood_threshold \in Thresholds
    /\ seed = <<>> /\ flooded = <<>> /\ flood_mask = <<>>
    /\ TilesIdle /\ BatchIdle /\ MainIdle /\ ScenarioIdle

SpecFloodLive == FloodLiveInit /\ [][FloodNext]_vars /\ WF_vars(FloodNext)

(***************************************************************************)
(* Properties of the delineation.                                          *)
(***************************************************************************)
AllFinite == \A c \in DOMAIN dem_array : IsFinite(dem_array[c])

Below(c) == Lt(dem_array[c], flood_threshold)

OnBorder(c) == ~Interior(shape, c)

\* cells that share an edge or a corner / that share an edge
Touch8(c, d) ==
    c # d /\ c[1] - d[1] \in {-1, 0, 1} /\ c[2] - d[2] \in {-1, 0, 1}

Touch4(c, d) ==
    \/ c[1] = d[1] /\ c[2] - d[2] \in {-1, 1}
    \/ c[2] = d[2] /\ c[1] - d[1] \in {-1, 1}

LowCells == {c \in DOMAIN dem_array : Below(c)}

\* the below-threshold cells joined to S by a chain of touching
\* below-threshold cells
RECURSIVE Grow8(_)
Grow8(S) ==
    LET T == S \cup {c \in LowCells : \E d \in S : Touch8(c, d)}
    IN  IF T = S THEN S ELSE Grow8(T)

RECURSIVE Grow4(_)
Grow4(S) ==
    LET T == S \cup {c \in LowCells : \E d \in S : Touch4(c, d)}
    IN  IF T = S THEN S ELSE Grow4(T)

LowBorder == {c \in LowCells : OnBorder(c)}

\* C1: for a finite sanitized grid, a cell is flooded iff it is below the
\* threshold and a path of neighbouring (edge- or corner-sharing) cells that
\* are all below the threshold joins it to a cell of the outer border.
C1_FloodedIffConnected ==
    (fpc = "done" /\ AllFinite) =>
        \A c \in DOMAIN flood_mask :
            flood_mask[c] = 1 <=> c \in Grow8(LowBorder)

\* a channel two cells long floods up to its interior end, which touches no
\* below-threshold border cell itself
C1_Witness ==
    /\ fpc = "done" /\ AllFinite
    /\ \E c \in DOMAIN flood_mask :
           /\ Interior(shape, c) /\ flood_mask[c] = 1
           /\ \A d \in LowBorder : ~Touch8(c, d)
    /\ \E c \in DOMAIN flood_mask : dem_array[c] >= flood_threshold

NoInterior == shape[1] < 3 \/ shape[2] < 3

\* C3: in a grid with fewer than 3 rows or fewer than 3 columns the seed
\* equals E in every cell, the reconstruction changes nothing, and a cell
\* is flooded iff E[cell] < floodThreshold.
C3_NoInteriorPointwise ==
    NoInterior =>
        /\ fpc \in {"seeded", "recon", "done"} => seed = dem_array
        /\ fpc \in {"recon", "done"} => flooded = dem_array
        /\ fpc = "done" =>
               \A c \in DOMAIN flood_mask : flood_mask[c] = 1 <=> Below(c)

C3_Witness ==
    /\ fpc = "done" /\ shape[1] = 2 /\ shape[2] >= 3
    /\ \E c \in DOMAIN flood_mask : flood_mask[c] = 1
    /\ \E c \in DOMAIN flood_mask : flood_mask[c] = 0

\* the sentinel the sanitization compares with
Sentinel == IF nodata # None THEN nodata ELSE DefaultNodata

\* C4: sanitization replaces with 9999 exactly the cells that equal the
\* no-data sentinel (the declared one, or -9999 when none is declared) or
\* that are strictly below -100, and leaves every other cell unchanged.
C4_SanitizeExactly ==
    fpc # "loaded" =>
        \A c \in DOMAIN raw :
            dem_array[c] = IF Eq(raw[c], Sentinel) \/ Lt(raw[c], SafetyFloor)
                           THEN DryValue ELSE raw[c]

\* a cell below -100 that differs from the declared sentinel is replaced, a
\* cell equal to the declared sentinel 0 is replaced, a cell at -100 is kept
C4_Witness ==
    /\ fpc = "sanitized" /\ nodata = 0
    /\ \E c \in DOMAIN raw : raw[c] = -101 /\ dem_array[c] = DryValue
    /\ \E c \in DOMAIN raw : raw[c] = 0 /\ dem_array[c] = DryValue
    /\ \E c \in DOMAIN raw : raw[c] = SafetyFloor /\ dem_array[c] = SafetyFloor

\* C5: when the sanitized grid holds a non-finite value the delineation
\* fails before producing a flood mask: no mask is ever taken from such a
\* grid.
C5_NonFiniteFailsFast == fpc = "done" => AllFinite

(***************************************************************************)
(* The tile planner, create_tiles(bounds, tile_size_deg, overlap).         *)
(***************************************************************************)
MaxExtentSteps == 3

\* longitude and latitude spans <<min, max>> in thousandths of a degree
LonSpans ==
    {<<-8900, -8600>>, <<-8750, -8600>>}
    \cup {<<0, 150 * k + d>> : k \in 1..MaxExtentSteps, d \in {0, 1}}

LatSpans == {<<40550, 41870>>, <<40950, 41030>>, <<0, 100>>}

TileSizes == {100, 150, 400}

Overlaps == {0, 1, 5, 200}

\* int(np.ceil((max - min) / tile_size_deg))
NTiles(lo, hi, ts) == FCeil(FDiv(FSub(hi, lo), ts))

\* the tile without the overlap on its east and north edges
TileAtNoUpperOverlap(b, ts, ov, i, j) ==
    LET tile_min_lon == FSub(FAdd(b[1], MulInt(i, ts)),
                             IF i > 0 THEN ov ELSE FZero)
        tile_max_lon == FMin(FAdd(b[1], MulInt(i + 1, ts)), b[3])
        tile_min_lat == FSub(FAdd(b[2], MulInt(j, ts)),
                             IF j > 0 THEN ov ELSE FZero)
        tile_max_lat == FMin(FAdd(b[2], MulInt(j + 1, ts)), b[4])
    IN  <<FMax(tile_min_lon, b[1]), FMax(tile_min_lat, b[2]),
          tile_max_lon, tile_max_lat>>

\* the tile of column i and row j, for bounds b, tile size ts and overlap ov
TileAt(b, ts, ov, i, j) ==
    LET min_lon == b[1]
        min_lat == b[2]
        max_lon == b[3]
        max_lat == b[4]
        tile_min_lon == FSub(FAdd(min_lon, MulInt(i, ts)),
                             IF i > 0 THEN ov ELSE FZero)
        tile_max_lon == FMin(FAdd(FAdd(min_lon, MulInt(i + 1, ts)), ov),
                             max_lon)
        tile_min_lat == FSub(FAdd(min_lat, MulInt(j, ts)),
                             IF j > 0 THEN ov ELSE FZero)
        tile_max_lat == FMin(FAdd(FAdd(min_lat, MulInt(j + 1, ts)), ov),
                             max_lat)
    IN  <<FMax(tile_min_lon, min_lon), FMax(tile_min_lat, min_lat),
          tile_max_lon, tile_max_lat>>

TilesInit ==
    /\ tpc = "call"
    /\ args \in {<<lon[1], lat[1], lon[2], lat[2], ts, ov>> :
                    lon \in LonSpans, lat \in LatSpans,
                    ts \in TileSizes, ov \in Overlaps}
    /\ bounds = <<Milli(args[1]), Milli(args[2]), Milli(args[3]),
                  Milli(args[4])>>
    /\ tile_size_deg = Milli(args[5])
    /\ overlap = Milli(args[6])
    /\ n_tiles_x = 0 /\ n_tiles_y = 0
    /\ tiles = <<>>
    /\ FloodIdle /\ BatchIdle /\ MainIdle /\ ScenarioIdle

\* create_tiles(bounds, tile_size_deg, overlap)
CreateTiles ==
    /\ tpc = "call"
    /\ ~IsZero(tile_size_deg)
    /\ n_tiles_x' = NTiles(bounds[1], bounds[3], tile_size_deg)
    /\ n_tiles_y' = NTiles(bounds[2], bounds[4], tile_size_deg)
    /\ tiles' = IF n_tiles_x' <= 0 \/ n_tiles_y' <= 0 THEN <<>>
                ELSE [k \in 1..(n_tiles_x' * n_tiles_y') |->
                         TileAt(bounds, tile_size_deg, overlap,
                                (k - 1) % n_tiles_x', (k - 1) \div n_tiles_x')]
    /\ tpc' = "returned"
    /\ UNCHANGED <<args, bounds, tile_size_deg, overlap, floodVars, batchVars,
                   mainVars, scenarioVars>>

TilesNext == CreateTiles

SpecTiles == TilesInit /\ [][TilesNext]_vars

(***************************************************************************)
(* Properties of the tile planner.                                         *)
(***************************************************************************)
\* ceiling of a / b for positive integers
CeilDiv(a, b) == (a + b - 1) \div b

\* the non-overlapped grid lines
GridLon(i) == FAdd(bounds[1], MulInt(i, tile_size_deg))

GridLat(j) == FAdd(bounds[2], MulInt(j, tile_size_deg))

\* tile u is followed by tile v in row-major order, south to north and west
\* to east within a row
RowMajorStep(u, v) ==
    \/ /\ v[2] = u[2] /\ v[4] = u[4]
       /\ FLe(u[1], v[1]) /\ FLe(u[3], v[3])
    \/ /\ v[1] = bounds[1]
       /\ FLe(u[2], v[2]) /\ FLe(u[4], v[4])

\* C6: for a valid region, tile size > 0 and overlap >= 0, create_tiles
\* returns exactly ceil(lonExtent / tileSize) * ceil(latExtent / tileSize)
\* tiles in row-major order; for bounds (-8.90, 40.55, -8.60, 41.87), tile
\* size 0.15 and overlap 0.005 these are 2 x 9 = 18 tiles.
C6_TileCount ==
    tpc = "returned" =>
        /\ Len(tiles) = CeilDiv(args[3] - args[1], args[5])
                        * CeilDiv(args[4] - args[2], args[5])
        /\ \A k \in 1..(Len(tiles) - 1) : RowMajorStep(tiles[k], tiles[k + 1])
        /\ args = <<-8900, 40550, -8600, 41870, 150, 5>> => Len(tiles) = 18

InTile(x, y, t) ==
    FLe(t[1], x) /\ FLe(x, t[3]) /\ FLe(t[2], y) /\ FLe(y, t[4])

\* the coordinates at which tiles begin or end along one axis, with the
\* region's own edges
Breaks(lo, hi, a, b) ==
    {bounds[lo], bounds[hi]}
    \cup {c \in {tiles[k][a] : k \in 1..Len(tiles)}
                \cup {tiles[k][b] : k \in 1..Len(tiles)} :
            FLe(bounds[lo], c) /\ FLe(c, bounds[hi])}

\* the elementary intervals <<c, d>> between consecutive break coordinates
Pieces(B) ==
    {p \in B \X B : FLt(p[1], p[2])
                    /\ ~\E m \in B : FLt(p[1], m) /\ FLt(m, p[2])}

\* C7: every point of the overall region lies inside at least one tile.
\* (The region is the union of the elementary rectangles cut out by the
\* tiles' edges; it is covered iff each of them lies inside one tile.)
C7_Coverage ==
    tpc = "returned" =>
        \A px \in Pieces(Breaks(1, 3, 1, 3)) :
            \A py \in Pieces(Breaks(2, 4, 2, 4)) :
                \E k \in 1..Len(tiles) :
                    /\ InTile(px[1], py[1], tiles[k])
                    /\ InTile(px[2], py[2], tiles[k])

\* C8: every tile is well formed (minLon < maxLon, minLat < maxLat) and lies
\* within the overall region.
C8_WellFormedWithin ==
    tpc = "returned" =>
        \A k \in 1..Len(tiles) :
            /\ FLt(tiles[k][1], tiles[k][3])
            /\ FLt(tiles[k][2], tiles[k][4])
            /\ FLe(bounds[1], tiles[k][1]) /\ FLe(tiles[k][3], bounds[3])
            /\ FLe(bounds[2], tiles[k][2]) /\ FLe(tiles[k][4], bounds[4])

\* column and row of the k-th tile
ColOf(k) == (k - 1) % n_tiles_x

RowOf(k) == (k - 1) \div n_tiles_x

\* the planner produced the number of columns and rows of exact arithmetic
ExactGrid ==
    /\ n_tiles_x = CeilDiv(args[3] - args[1], args[5])
    /\ n_tiles_y = CeilDiv(args[4] - args[2], args[5])

\* C9 as stated: at every interior seam the two tiles' edges are displaced
\* outward from the grid line by exactly the configured overlap, for every
\* region extent, tile size and overlap >= 0.  (Stated for the grids with
\* the number of columns and rows of exact arithmetic, which the rounding
\* of C6 does not affect.)
C9_ExactOverlapAtEverySeam ==
    (tpc = "returned" /\ ExactGrid) =>
        \A k \in 1..Len(tiles) :
            /\ ColOf(k) > 0 =>
                   tiles[k][1] = FSub(GridLon(ColOf(k)), overlap)
            /\ ColOf(k) < n_tiles_x - 1 =>
                   tiles[k][3] = FAdd(GridLon(ColOf(k) + 1), overlap)
            /\ RowOf(k) > 0 =>
                   tiles[k][2] = FSub(GridLat(RowOf(k)), overlap)
            /\ RowOf(k) < n_tiles_y - 1 =>
                   tiles[k][4] = FAdd(GridLat(RowOf(k) + 1), overlap)

\* C9 (amended): every tile edge that does not lie on the overall region's
\* boundary is displaced outward from its grid line by exactly the
\* configured overlap; an edge lies on the boundary only in the first or
\* last column or row, or when its displaced position would reach or leave
\* the boundary (it is then clamped to it).
C9_OverlapUnlessClamped ==
    tpc = "returned" =>
        \A k \in 1..Len(tiles) :
            LET w == FSub(GridLon(ColOf(k)), overlap)
                e == FAdd(GridLon(ColOf(k) + 1), overlap)
                s == FSub(GridLat(RowOf(k)), overlap)
                n == FAdd(GridLat(RowOf(k) + 1), overlap)
            IN  /\ tiles[k][1] # bounds[1] => tiles[k][1] = w
                /\ tiles[k][1] = bounds[1] =>
                       ColOf(k) = 0 \/ FLe(w, bounds[1])
                /\ tiles[k][3] # bounds[3] => tiles[k][3] = e
                /\ tiles[k][3] = bounds[3] => FLe(bounds[3], e)
                /\ tiles[k][2] # bounds[2] => tiles[k][2] = s
                /\ tiles[k][2] = bounds[2] =>
                       RowOf(k) = 0 \/ FLe(s, bounds[2])
                /\ tiles[k][4] # bounds[4] => tiles[k][4] = n
                /\ tiles[k][4] = bounds[4] => FLe(bounds[4], n)

\* a seam with the configured overlap on both sides, and a clamped edge at
\* another seam
C9_Witness ==
    /\ tpc = "returned" /\ args[6] > 0 /\ n_tiles_x >= 3
    /\ tiles[1][3] = FAdd(GridLon(1), overlap) /\ tiles[1][3] # bounds[3]
    /\ tiles[2][1] = FSub(GridLon(1), overlap) /\ tiles[2][1] # bounds[1]
    /\ tiles[2][3] = bounds[3]

(***************************************************************************)
(* The tile orchestrator, process_tiles.  A tile is processed in the steps *)
(* of the try block; any of run_simulation_on_vrt, save_flood_geotiff and  *)
(* save_html_map may raise.                                                *)
(***************************************************************************)
MaxTiles == 3

\* tile bounds handed to process_tiles, in thousandths of a degree
BatchBounds == {<<0, 0, 150, 100>>, <<145, 0, 300, 100>>}

\* the statistics a simulation returns: flooded pixels and flooded area
Outcomes ==
    {[flooded_pixels |-> 0, flooded_area_km2 |-> 0],
     [flooded_pixels |-> 2, flooded_area_km2 |-> 187],
     [flooded_pixels |-> 5, flooded_area_km2 |-> 420]}

\* the flood mask of a tile that was simulated
Mask == 1

\* line 551 and line 559: the tuples appended to results
SuccessEntry(metadata, tile_bounds) ==
    [flood_mask |-> Mask, metadata |-> metadata, tile_bounds |-> tile_bounds]

FailedEntry(tile_bounds) ==
    [flood_mask |-> None, metadata |-> NoMetadata, tile_bounds |-> tile_bounds]

RECURSIVE SeqsUpTo(_, _)
SeqsUpTo(S, n) ==
    IF n = 0 THEN {<<>>}
    ELSE LET shorter == SeqsUpTo(S, n - 1)
         IN  shorter \cup {Append(q, x) : q \in shorter, x \in S}

BatchInit ==
    /\ bpc = "loop"
    /\ tile_list \in SeqsUpTo(BatchBounds, MaxTiles)
    /\ save_individual_maps \in BOOLEAN
    /\ idx = 0
    /\ cur = NoMetadata
    /\ results = <<>>
    /\ total_flooded_pixels = 0
    /\ total_flooded_area_km2 = 0
    /\ raised = {}
    /\ FloodIdle /\ TilesIdle /\ MainIdle /\ ScenarioIdle

\* line 527: the next tile, if any
BeginTile ==
    /\ bpc = "loop"
    /\ idx < Len(tile_list)
    /\ idx' = idx + 1
    /\ bpc' = "simulate"
    /\ UNCHANGED <<tile_list, save_individual_maps, cur, results,
                   total_flooded_pixels, total_flooded_area_km2, raised,
                   floodVars, tileVars, mainVars,
                   scenarioVars>>

\* lines 533-536
SimulateOk ==
    /\ bpc = "simulate"
    /\ cur' \in Outcomes
    /\ bpc' = "save_tif"
    /\ UNCHANGED <<tile_list, save_individual_maps, idx, results,
                   total_flooded_pixels, total_flooded_area_km2, raised,
                   floodVars, tileVars, mainVars,
                   scenarioVars>>

\* lines 539-540, then the test of line 543
SaveTifOk ==
    /\ bpc = "save_tif"
    /\ bpc' = IF save_individual_maps THEN "save_html" ELSE "accumulate"
    /\ UNCHANGED <<tile_list, save_individual_maps, idx, cur, results,
                   total_flooded_pixels, total_flooded_area_km2, raised,
                   floodVars, tileVars, mainVars,
                   scenarioVars>>

\* lines 544-545
SaveHtmlOk ==
    /\ bpc = "save_html"
    /\ bpc' = "accumulate"
    /\ UNCHANGED <<tile_list, save_individual_maps, idx, cur, results,
                   total_flooded_pixels, total_flooded_area_km2, raised,
                   floodVars, tileVars, mainVars,
                   scenarioVars>>

\* an exception leaves the try block at lines 533-545
Raise ==
    /\ bpc \in {"simulate", "save_tif", "save_html"}
    /\ bpc' = "except"
    /\ raised' = raised \cup {idx}
    /\ UNCHANGED <<tile_list, save_individual_maps, idx, cur, results,
                   total_flooded_pixels, total_flooded_area_km2,
                   floodVars, tileVars, mainVars,
                   scenarioVars>>

\* lines 548-549
Accumulate ==
    /\ bpc = "accumulate"
    /\ total_flooded_area_km2' = total_flooded_area_km2 + cur.flooded_area_km2
    /\ total_flooded_pixels' = total_flooded_pixels + cur.flooded_pixels
    /\ bpc' = "append"
    /\ UNCHANGED <<tile_list, save_individual_maps, idx, cur, results, raised,
                   floodVars, tileVars, mainVars,
                   scenarioVars>>

\* lines 551-553
AppendResult ==
    /\ bpc = "append"
    /\ results' = Append(results, SuccessEntry(cur, tile_list[idx]))
    /\ bpc' = "loop"
    /\ UNCHANGED <<tile_list, save_individual_maps, idx, cur,
                   total_flooded_pixels, total_flooded_area_km2, raised,
                   floodVars, tileVars, mainVars,
                   scenarioVars>>

\* the handler ending the batch instead of recording the failure
ExceptAborts ==
    /\ bpc = "except"
    /\ bpc' = "returned"
    /\ UNCHANGED <<tile_list, save_individual_maps, idx, cur, results,
                   total_flooded_pixels, total_flooded_area_km2, raised,
                   floodVars, tileVars, mainVars,
                   scenarioVars>>

\* the handler adding the statistics of the failed tile to the totals
ExceptCountsTile ==
    /\ bpc = "except"
    /\ results' = Append(results, FailedEntry(tile_list[idx]))
    /\ total_flooded_pixels' =
           total_flooded_pixels + IF cur = NoMetadata THEN 0 ELSE cur.flooded_pixels
    /\ total_flooded_area_km2' =
           total_flooded_area_km2 + IF cur = NoMetadata THEN 0 ELSE cur.flooded_area_km2
    /\ bpc' = "loop"
    /\ UNCHANGED <<tile_list, save_individual_maps, idx, cur, raised,
                   floodVars, tileVars, mainVars,
                   scenarioVars>>

\* lines 555-559
Except ==
    /\ bpc = "except"
    /\ results' = Append(results, FailedEntry(tile_list[idx]))
    /\ bpc' = "loop"
    /\ UNCHANGED <<tile_list, save_individual_maps, idx, cur,
                   total_flooded_pixels, total_flooded_area_km2, raised,
                   floodVars, tileVars, mainVars,
                   scenarioVars>>

\* lines 561-573
ReturnResults ==
    /\ bpc = "loop"
    /\ idx = Len(tile_list)
    /\ bpc' = "returned"
    /\ UNCHANGED <<tile_list, save_individual_maps, idx, cur, results,
                   total_flooded_pixels, total_flooded_area_km2, raised,
                   floodVars, tileVars, mainVars,
                   scenarioVars>>

BatchNext ==
    \/ BeginTile \/ SimulateOk \/ SaveTifOk \/ SaveHtmlOk \/ Raise
    \/ Accumulate \/ AppendResult \/ Except \/ ReturnResults

SpecBatch == BatchInit /\ [][BatchNext]_vars

(***************************************************************************)
(* Properties of the tile orchestrator.                                    *)
(***************************************************************************)
Failed(entry) == entry.flood_mask = None

\* C10: a tile failure never aborts the batch: it is recorded as a failed
\* entry for that tile and the later tiles are still processed, so the
\* returned sequence has exactly one entry per input tile, in the input
\* order, entry i carrying the bounds of tile i and being a failed entry
\* iff the processing of tile i raised.
C10_OneEntryPerTile ==
    /\ bpc # "idle" =>
           /\ Len(results) = IF bpc \in {"loop", "returned"} THEN idx ELSE idx - 1
           /\ \A i \in 1..Len(results) :
                  /\ results[i].tile_bounds = tile_list[i]
                  /\ Failed(results[i]) <=> i \in raised
    /\ bpc = "returned" => Len(results) = Len(tile_list)

\* three tiles of which the second failed: one failed and two succeeded
\* entries are returned
C10_Witness ==
    /\ bpc = "returned" /\ Len(tile_list) = 3 /\ raised = {2}
    /\ Failed(results[2]) /\ ~Failed(results[1]) /\ ~Failed(results[3])
    /\ Cardinality({i \in 1..Len(results) : Failed(results[i])}) = 1

\* the plain sums of the statistics of the entries recorded as succeeded
RECURSIVE SumPixels(_)
SumPixels(res) ==
    IF res = <<>> THEN 0
    ELSE SumPixels(SubSeq(res, 1, Len(res) - 1))
         + IF Failed(res[Len(res)]) THEN 0
           ELSE res[Len(res)].metadata.flooded_pixels

RECURSIVE SumArea(_)
SumArea(res) ==
    IF res = <<>> THEN 0
    ELSE SumArea(SubSeq(res, 1, Len(res) - 1))
         + IF Failed(res[Len(res)]) THEN 0
           ELSE res[Len(res)].metadata.flooded_area_km2

\* between line 549 and line 551 the tile that succeeded is already in the
\* totals and is recorded by the next statement, which cannot raise
BeingRecorded == bpc = "append"

\* C11: the running totals of process_tiles are the plain sums of the
\* per-tile statistics over the tiles recorded as succeeded: a failed tile
\* contributes nothing, a succeeded tile contributes exactly once (its
\* statistics enter the totals at lines 548-549, immediately before it is
\* recorded at line 551), and nothing is deduplicated.
C11_TotalsAreSumOfSucceeded ==
    bpc # "idle" =>
        /\ total_flooded_pixels =
               SumPixels(results) + IF BeingRecorded THEN cur.flooded_pixels ELSE 0
        /\ total_flooded_area_km2 =
               SumArea(results) + IF BeingRecorded THEN cur.flooded_area_km2 ELSE 0

\* two overlapping tiles succeeded with the same statistics around a tile
\* that failed: the totals are twice the statistics of one tile
C11_Witness ==
    /\ bpc = "returned" /\ Len(tile_list) = 3 /\ raised = {2}
    /\ results[1].tile_bounds = <<0, 0, 150, 100>>
    /\ results[3].tile_bounds = <<145, 0, 300, 100>>
    /\ results[1].metadata.flooded_pixels = 5
    /\ results[3].metadata.flooded_pixels = 5
    /\ total_flooded_pixels = 10 /\ total_flooded_area_km2 = 840

(***************************************************************************)
(* The tiled command run, __main__ of Simul_tiled.py (the tiled mode of    *)
(* Simul_corrected.py is the same code).  The plan of create_tiles for the *)
(* region of line 30 is never empty; it is represented by a non-empty list *)
(* of at most MaxTiles tiles.                                              *)
(***************************************************************************)
MainInit ==
    /\ mpc = "start"
    /\ vrt_is_file \in BOOLEAN
    /\ exit_status = None
    /\ FloodIdle /\ TilesIdle /\ BatchIdle /\ ScenarioIdle

\* lines 34-37: sys.exit(1) when the VRT file is missing
VrtMissing ==
    /\ mpc = "start"
    /\ ~vrt_is_file
    /\ exit_status' = 1
    /\ mpc' = "exited"
    /\ UNCHANGED <<vrt_is_file, floodVars, tileVars, batchVars,
                   scenarioVars>>

\* lines 41-56: the tiles are planned and handed to process_tiles
CallProcessTiles ==
    /\ mpc = "start"
    /\ vrt_is_file
    /\ tile_list' \in SeqsUpTo(BatchBounds, MaxTiles) \ {<<>>}
    /\ save_individual_maps' = TRUE
    /\ bpc' = "loop"
    /\ mpc' = "process_tiles"
    /\ UNCHANGED <<idx, cur, results, total_flooded_pixels,
                   total_flooded_area_km2, raised, vrt_is_file, exit_status,
                   floodVars, tileVars, scenarioVars>>

\* lines 58-81: the merged VRT is optional, then the script ends
FinishRun ==
    /\ mpc = "process_tiles"
    /\ bpc = "returned"
    /\ exit_status' = 0
    /\ mpc' = "exited"
    /\ UNCHANGED <<vrt_is_file, floodVars, tileVars, batchVars,
                   scenarioVars>>

MainNext == VrtMissing \/ CallProcessTiles \/ BatchNext \/ FinishRun

SpecMain == MainInit /\ [][MainNext]_vars

AllTilesFailed == \A i \in 1..Len(results) : Failed(results[i])

\* C12: the tiled command run exits with non-zero status when the input
\* file is not found or when every tile failed, and with status zero
\* otherwise, also when only some of the tiles failed.
C12_ExitStatus ==
    mpc = "exited" =>
        (exit_status # 0 <=> (~vrt_is_file \/ AllTilesFailed))

(***************************************************************************)
(* The tile planner on configurations that are not valid: a bounding box   *)
(* with min >= max in a dimension, a tile size that is zero or negative.   *)
(***************************************************************************)
ConfigLonSpans == {<<0, 300>>, <<0, 0>>, <<300, 0>>}

ConfigLatSpans == {<<0, 100>>, <<100, 100>>, <<100, 0>>}

ConfigTileSizes == {150, 100, 0, -150}

ConfigOverlaps == {0, 5}

TilesConfigInit ==
    /\ tpc = "call"
    /\ args \in {<<lon[1], lat[1], lon[2], lat[2], ts, ov>> :
                    lon \in ConfigLonSpans, lat \in ConfigLatSpans,
                    ts \in ConfigTileSizes, ov \in ConfigOverlaps}
    /\ bounds = <<Milli(args[1]), Milli(args[2]), Milli(args[3]),
                  Milli(args[4])>>
    /\ tile_size_deg = Milli(args[5])
    /\ overlap = Milli(args[6])
    /\ n_tiles_x = 0 /\ n_tiles_y = 0
    /\ tiles = <<>>
    /\ FloodIdle /\ BatchIdle /\ MainIdle /\ ScenarioIdle

\* line 450: the float division by a zero tile size raises ZeroDivisionError
DivisionByZero ==
    /\ tpc = "call"
    /\ IsZero(tile_size_deg)
    /\ tpc' = "raised"
    /\ UNCHANGED <<args, bounds, tile_size_deg, overlap, n_tiles_x,
                   n_tiles_y, tiles, floodVars, batchVars, mainVars,
                   scenarioVars>>

TilesConfigNext == CreateTiles \/ DivisionByZero

SpecTilesConfig == TilesConfigInit /\ [][TilesConfigNext]_vars

ConfigurationError ==
    args[1] >= args[3] \/ args[2] >= args[4] \/ args[5] <= 0

\* C13: on a configuration error (minLon >= maxLon or minLat >= maxLat, or
\* a tile size that is zero or negative) the planner fails with an error:
\* it never returns a tile list, empty or malformed, for such input.
C13_ConfigErrorFailsFast ==
    (tpc # "call" /\ ConfigurationError) => tpc = "raised"

(***************************************************************************)
(* The threshold arithmetic of run_simulation_on_vrt, lines 63-64, in      *)
(* Python floats.  The scalars are written with two decimals.              *)
(***************************************************************************)
Tides == {380, 250, 0}

Surges == {60, 0, -30}

SeaLevelRises == {113, 0, -50}

DatumOffsets == {200, 150, 0}

\* the float written as the decimal literal n / 100
Centi(n) == FDiv(FromInt(n), FromInt(100))

ThresholdInit ==
    /\ spc = "call"
    /\ scenario \in Tides \X Surges \X SeaLevelRises \X DatumOffsets
    /\ total_water_level = FZero
    /\ flood_threshold = FZero
    /\ fpc = "idle" /\ shape = <<0, 0>> /\ nodata = None
    /\ dem_array = <<>> /\ raw = <<>>
    /\ seed = <<>> /\ flooded = <<>> /\ flood_mask = <<>>
    /\ TilesIdle /\ BatchIdle /\ MainIdle

\* the threshold with the datum offset added instead of subtracted
ComputeThresholdOffsetAdded ==
    /\ spc = "call"
    /\ total_water_level' =
           FAdd(FAdd(Centi(scenario[1]), Centi(scenario[2])),
                Centi(scenario[3]))
    /\ flood_threshold' = FAdd(total_water_level', Centi(scenario[4]))
    /\ spc' = "computed"
    /\ UNCHANGED <<scenario, fpc, shape, nodata, dem_array, raw, seed,
                   flooded, flood_mask, tileVars, batchVars, mainVars>>

\* lines 63-64
ComputeThreshold ==
    /\ spc = "call"
    /\ total_water_level' =
           FAdd(FAdd(Centi(scenario[1]), Centi(scenario[2])),
                Centi(scenario[3]))
    /\ flood_threshold' = FSub(total_water_level', Centi(scenario[4]))
    /\ spc' = "computed"
    /\ UNCHANGED <<scenario, fpc, shape, nodata, dem_array, raw, seed,
                   flooded, flood_mask, tileVars, batchVars, mainVars>>

ThresholdNext == ComputeThreshold

SpecThreshold == ThresholdInit /\ [][ThresholdNext]_vars

\* the exact decimal results, in hundredths of a metre
ExactLevel == scenario[1] + scenario[2] + scenario[3]

ExactThreshold == ExactLevel - scenario[4]

\* the scenario of the example: tide 3.8, surge 0.6, slr 1.13, offset 2.00
ExampleScenario == <<380, 60, 113, 200>>

\* C14 as stated: the results are the sum and the difference themselves,
\* 5.53 and 3.53 for the example.
C14_ExactDecimalResults ==
    spc = "computed" =>
        /\ total_water_level = Centi(ExactLevel)
        /\ flood_threshold = Centi(ExactThreshold)

\* 2^-49, about 1.8e-15
RoundingTolerance == [s |-> 0, e |-> -101, h |-> 2^25, l |-> 0]

FAbs(x) == [x EXCEPT !.s = 0]

WithinRounding(x, y) == FLe(FAbs(FSub(x, y)), RoundingTolerance)

\* C14 (amended): for all scenario inputs, negative surge or sea-level rise
\* included, the computation has no error outcome and yields
\* tide + surge + slr and that sum less the datum offset up to the rounding
\* of floating-point arithmetic (within 2^-49 for levels of a few metres);
\* for the example the floats are 5.529999999999999 and 3.5299999999999994,
\* one unit in the last place below the floats 5.53 and 3.53.
C14_ResultsWithinRounding ==
    spc = "computed" =>
        /\ WithinRounding(total_water_level, Centi(ExactLevel))
        /\ WithinRounding(flood_threshold, Centi(ExactThreshold))
        /\ scenario = ExampleScenario =>
               /\ total_water_level =
                      [s |-> 0, e |-> -50, h |-> 46389002, l |-> 32212254]
               /\ flood_threshold =
                      [s |-> 0, e |-> -51, h |-> 59223572, l |-> 64424508]
               /\ Centi(553) =
                      [s |-> 0, e |-> -50, h |-> 46389002, l |-> 32212255]
               /\ Centi(353) =
                      [s |-> 0, e |-> -51, h |-> 59223572, l |-> 64424509]

\* the example scenario has been computed
C14_Witness ==
    /\ spc = "computed" /\ scenario = ExampleScenario
    /\ FLt(total_water_level, Centi(553))
    /\ FLt(flood_threshold, Centi(353))

(***************************************************************************)
(* Properties of the seed and of the reconstruction passes.                *)
(***************************************************************************)
Seeded == fpc \in {"seeded", "recon", "raised", "done"}

\* C15 as stated: a border cell and every cell below the threshold keep
\* their own elevation in the seed, every other interior cell gets the
\* global maximum elevation.
C15_SeedAsStated ==
    Seeded =>
        \A c \in DOMAIN dem_array :
            seed[c] = IF OnBorder(c) \/ Below(c) THEN dem_array[c]
                      ELSE ArrayMax(dem_array)

\* C15 (amended): every border cell has seed equal to its own elevation;
\* every interior cell whose elevation is strictly below the threshold has
\* seed equal to the global maximum elevation of E; every remaining
\* interior cell has seed equal to its own elevation.
C15_SeedLowInteriorRaised ==
    Seeded =>
        \A c \in DOMAIN dem_array :
            seed[c] = IF Interior(shape, c) /\ Below(c)
                      THEN ArrayMax(dem_array)
                      ELSE dem_array[c]

\* a grid with two interior cells, one below the threshold and raised to
\* the maximum in the seed, one at the threshold and kept
C15_Witness ==
    /\ Seeded /\ shape = <<3, 4>> /\ flood_threshold = 3
    /\ dem_array[<<2, 2>>] = 1 /\ seed[<<2, 2>>] = 3
    /\ dem_array[<<2, 3>>] = 3 /\ seed[<<2, 3>>] = 3
    /\ \A c \in DOMAIN dem_array : OnBorder(c) => seed[c] = dem_array[c]
    /\ \E c \in DOMAIN dem_array : OnBorder(c) /\ Below(c)

\* the float comparison a >= b, false when either side is NaN
Ge(a, b) == a # NaN /\ b # NaN /\ a >= b

\* a is at least b; a cell holding the very value b counts as equal, also
\* when that value is NaN
AtLeast(a, b) == a = b \/ Ge(a, b)

Reconstructing == fpc \in {"recon", "done"}

\* C16: from the seed onward and after every pass up to and including the
\* fixed point, the working surface satisfies R[cell] >= E[cell] for every
\* cell; in particular the seed is nowhere below E.
C16_SurfaceAboveElevation ==
    /\ Seeded =>
           \A c \in DOMAIN dem_array : AtLeast(seed[c], dem_array[c])
    /\ Reconstructing =>
           \A c \in DOMAIN dem_array : AtLeast(flooded[c], dem_array[c])

\* at the fixed point an interior cell has been lowered from the maximum of
\* the seed down to its elevation, next to a border cell that never moved
C16_Witness ==
    /\ fpc = "done"
    /\ \E c \in DOMAIN dem_array :
           /\ Interior(shape, c)
           /\ seed[c] > flooded[c] /\ flooded[c] = dem_array[c]
    /\ \E c \in DOMAIN dem_array :
           /\ OnBorder(c)
           /\ seed[c] = flooded[c] /\ flooded[c] = dem_array[c]

\* C17: every reconstruction pass leaves each cell's value less than or
\* equal to its value before the pass, so the surface never exceeds the
\* seed, and once a pass changes no cell (the fixed point from which the
\* mask is taken) one more pass changes no cell.
C17_NonIncreasingThenStable ==
    [][/\ (fpc = "recon" /\ fpc' = "recon") =>
              \A c \in DOMAIN flooded : AtLeast(flooded[c], flooded'[c])
       /\ fpc' \in {"recon", "done"} =>
              \A c \in DOMAIN seed' : AtLeast(seed'[c], flooded'[c])
       /\ fpc' = "done" =>
              Erode(shape', dem_array', flooded') = flooded']_vars

\* a fixed point reached after more than one pass
C17_Witness ==
    /\ fpc = "done"
    /\ Erode(shape, dem_array, seed) # seed
    /\ Erode(shape, dem_array, seed) # flooded
    /\ Erode(shape, dem_array, flooded) = flooded

\* C18: for every grid with finite elevations the reconstruction reaches a
\* surface that a pass leaves unchanged, and the flood mask is extracted
\* from that fixed point: the passes cannot go on forever.
C18_ReachesFixedPoint ==
    (fpc = "seeded" /\ AllFinite) ~>
        (fpc = "done" /\ Erode(shape, dem_array, flooded) = flooded
                      /\ flood_mask # <<>>)

\* a finite grid whose mask was extracted after the passes had lowered the
\* surface
C18_Witness ==
    /\ fpc = "done" /\ AllFinite /\ flood_mask # <<>>
    /\ flooded # seed
    /\ \E c \in DOMAIN flood_mask : flood_mask[c] = 1 /\ Interior(shape, c)

\* the surface reconstruction returns: the passes repeated from R until one
\* changes nothing
RECURSIVE Reconstruction(_, _, _)
Reconstruction(sh, dem, R) ==
    LET next == Erode(sh, dem, R)
    IN  IF next = R THEN R ELSE Reconstruction(sh, dem, next)

\* lines 93-99 for the grid dem and the threshold t
FloodMaskAt(sh, dem, t) ==
    MaskOf(Reconstruction(sh, dem, MakeSeed(sh, dem, t)), t)

\* Grids of three elevation levels, on which the seed differs from one
\* threshold to the other: 3 x 3 grids, the smallest with an interior
LevelShape == <<3, 3>>

Levels == {1, 3, 5}

LevelThresholds == {2, 4}

FloodLevelsInit ==
    /\ fpc = "loaded"
    /\ shape = LevelShape
    /\ raw \in [Cells(shape) -> Levels]
    /\ nodata = None
    /\ dem_array = raw
    /\ flood_threshold \in LevelThresholds
    /\ seed = <<>> /\ flooded = <<>> /\ flood_mask = <<>>
    /\ TilesIdle /\ BatchIdle /\ MainIdle /\ ScenarioIdle

SpecFloodLevels == FloodLevelsInit /\ [][FloodNext]_vars

\* the thresholds the mask is compared under; 6 is above every elevation
HigherThresholds == LevelThresholds \cup {6}

\* C19: the flood mask is monotone in the threshold: for the same sanitized
\* grid and thresholds t1 <= t2, every cell flooded under t1 is flooded
\* under t2, although the seed is not the same under t1 and t2.
C19_MaskMonotoneInThreshold ==
    fpc = "done" =>
        /\ flood_mask = FloodMaskAt(shape, dem_array, flood_threshold)
        /\ \A t2 \in HigherThresholds :
               flood_threshold <= t2 =>
                   \E mask2 \in {FloodMaskAt(shape, dem_array, t2)} :
                       \A c \in DOMAIN flood_mask :
                           flood_mask[c] = 1 => mask2[c] = 1

\* under the threshold 2 a border cell is flooded and the centre, at 3, is
\* dry and keeps its elevation in the seed; under the threshold 4 the seed
\* raises the centre to the maximum 5 and the centre is flooded
C19_Witness ==
    /\ fpc = "done" /\ flood_threshold = 2
    /\ dem_array[<<2, 2>>] = 3 /\ seed[<<2, 2>>] = 3
    /\ MakeSeed(shape, dem_array, 4)[<<2, 2>>] = 5
    /\ \E c \in DOMAIN flood_mask : flood_mask[c] = 1
    /\ flood_mask[<<2, 2>>] = 0
    /\ FloodMaskAt(shape, dem_array, 4)[<<2, 2>>] = 1

====
